---- MODULE Spec2Model ----
(***************************************************************************)
(* Model of tools/proc.py: the per-photo pipeline (Processor), the         *)
(* hash-gated writer (_save_file), and the batch driver (__main__) that    *)
(* maps the pipeline over a process pool and writes the sorted manifest.   *)
(* Two consecutive invocations of the script on one assets directory are   *)
(* modelled, so that the second one starts from the tree the first left.   *)
(***************************************************************************)
EXTENDS Integers, Sequences, FiniteSets, TLC

\* ------------------------------------------------------------------ bounds
MaxFiles == 2          \* source/*.jpg holds at most this many files
MaxCpu == 4            \* multiprocessing.cpu_count() ranges over 1..MaxCpu
MaxDim == 900          \* no image side of the model exceeds this
HashSpace == 1073741824 \* number of distinct digests (stands for 2^128)

\* ------------------------------------------------------- program constants
TagDateTime == 306     \* 0x0132
TagOrientation == 274  \* 0x0112
DefaultQuality == 85
TzHours == 8

\* Python's None, for a value that is otherwise a tuple; an optional record
\* is the empty tuple or a one-element tuple.
None == << >>
Some(x) == << x >>
\* The content of a path at which dest_file_path.exists() is false.
NoFile == -1

Names == 1..MaxFiles
Qualities == {DefaultQuality, 60}

\* The variant table of open_image, in the order the dict is filled.
VariantTable ==
    << [name |-> "xs", bbox |-> <<10, 10>>],
       [name |-> "s", bbox |-> <<800, 800>>],
       [name |-> "ori", bbox |-> None] >>
NVariants == Len(VariantTable)
VariantNames == {VariantTable[i].name : i \in 1..NVariants}

\* ------------------------------------------------------------------ strings
\* A string is the sequence of its character codes.
Digit(d) == 48 + d
\* A variant of Pad2 without the leading zero.
Pad2_unpadded(n) == IF n < 10 THEN << Digit(n) >> ELSE << Digit(n \div 10), Digit(n % 10) >>

Pad2(n) == << Digit((n \div 10) % 10), Digit(n % 10) >>
Pad4(n) == << Digit((n \div 1000) % 10), Digit((n \div 100) % 10) >> \o Pad2(n)

\* Python's str < str: code points compared left to right, a proper prefix
\* being the smaller.
StrLess(a, b) ==
    \/ \E i \in 1..Len(b) :
          /\ i <= Len(a)
          /\ a[i] < b[i]
          /\ \A j \in 1..(i - 1) : a[j] = b[j]
    \/ /\ Len(a) < Len(b)
       /\ \A j \in 1..Len(a) : a[j] = b[j]

\* --------------------------------------------------------------- parse_time
DaysInMonth(y, m) ==
    IF m \in {4, 6, 9, 11} THEN 30
    ELSE IF m = 2
         THEN (IF (y % 4 = 0 /\ y % 100 # 0) \/ y % 400 = 0 THEN 29 ELSE 28)
         ELSE 31

\* datetime.strptime(datestr, '%Y:%m:%d %H:%M:%S') accepts the fields of
\* datestr = <<Y, M, D, h, m, s>> only within the ranges of a datetime.
StrptimeOk(d) ==
    /\ d[1] \in 1..9999
    /\ d[2] \in 1..12
    /\ d[3] \in 1..DaysInMonth(d[1], d[2])
    /\ d[4] \in 0..23
    /\ d[5] \in 0..59
    /\ d[6] \in 0..59

\* For a datestr that strptime accepts: the parsed value is naive, so the
\* fixed offset is attached and isoformat() renders
\* 'YYYY-MM-DDTHH:MM:SS+08:00'.
parse_time(datestr) ==
    Pad4(datestr[1]) \o <<45>> \o Pad2(datestr[2]) \o <<45>>
        \o Pad2(datestr[3]) \o <<84>> \o Pad2(datestr[4]) \o <<58>>
        \o Pad2(datestr[5]) \o <<58>> \o Pad2(datestr[6])
        \o <<43>> \o Pad2(TzHours) \o <<58>> \o Pad2(0)

\* ------------------------------------------------------------------- images
\* An image is [h, w, px, rot]: its size, the photograph it shows and the
\* rotation applied to the decoded pixels.
Abs(x) == IF x < 0 THEN 0 - x ELSE x
Max2(a, b) == IF a >= b THEN a ELSE b

\* A variant of rotate with expand=False: the canvas keeps its size.
rotate_no_expand(image, degree) ==
    [image EXCEPT !.rot = (@ + degree) % 360]

\* image.rotate(degree, expand=True)
rotate(image, degree) ==
    IF degree \in {90, 270}
    THEN [image EXCEPT !.h = image.w, !.w = image.h, !.rot = (@ + degree) % 360]
    ELSE [image EXCEPT !.rot = (@ + degree) % 360]

\* Image.thumbnail(size): size = (x, y) bounds width and height; the aspect
\* ratio is kept and the image is never enlarged.
thumbnail(image, size) ==
    LET x == size[1]
        y == size[2]
        w == image.w
        h == image.h
    IN  IF x >= w /\ y >= h THEN image
        ELSE IF x * h >= y * w
             THEN \* x / y >= aspect: the height is the binding side
                  LET f == (y * w) \div h
                      c == IF (y * w) % h = 0 THEN f ELSE f + 1
                      pick == IF Abs(w * y - f * h) <= Abs(w * y - c * h) THEN f ELSE c
                  IN  [image EXCEPT !.w = Max2(pick, 1), !.h = y]
             ELSE LET f == (x * h) \div w
                      c == IF (x * h) % w = 0 THEN f ELSE f + 1
                      pick == IF f = 0 THEN f
                              ELSE IF Abs(w * f - x * h) * c <= Abs(w * c - x * h) * f
                                   THEN f ELSE c
                  IN  [image EXCEPT !.h = Max2(pick, 1), !.w = x]

\* image.copy(): another image object with the same content.
copy(image) == image

\* A call of resize gives ret, the value of the object returned; same,
\* whether that object is the one passed in; and arg, the value the object
\* passed in has after the call (thumbnail changes its object in place).
\* A variant of resize that leaves out the copy.
resize_in_place(image, bbox) ==
    IF bbox = None
    THEN [ret |-> image, same |-> TRUE, arg |-> image]
    ELSE [ret |-> thumbnail(image, bbox), same |-> TRUE,
          arg |-> thumbnail(image, bbox)]

resize(image, bbox) ==
    IF bbox = None
    THEN [ret |-> image, same |-> TRUE, arg |-> image]
    ELSE [ret |-> thumbnail(copy(image), bbox), same |-> FALSE, arg |-> image]

\* image.save(buffer, format='jpeg', optimize=True, quality=q): the encoder
\* is deterministic, and distinct (image, quality) pairs give distinct bytes.
\* A byte string is a natural number.
Encode(image, q) ==
    ((((image.px - 1) * 4 + image.rot \div 90) * 101 + q) * (MaxDim + 1) + image.h)
        * (MaxDim + 1) + image.w

\* hashlib.md5: a digest of bounded width, hence many-to-one on byte strings.
md5(bytes) == bytes % HashSpace

\* ------------------------------------------------------------ source files
\* A source file is [decodable, exif, h, w, px]: whether Image.open can
\* decode it, the result of _getexif() (None, or Some(tag -> value)), and the
\* decoded picture.  The capture times are those of two photographs taken a
\* day apart.
Time1 == <<2023, 5, 1, 10, 0, 0>>
Time2 == <<2023, 5, 2, 9, 0, 0>>

\* '0000:00:00 00:00:00', as written by a camera whose clock was never set.
TimeUnset == <<0, 0, 0, 0, 0, 0>>

SourceKinds == {"corrupt", "noexif", "notime", "badtime", "t1", "t2"}

SourceFile(kind, n) ==
    CASE kind = "corrupt" ->
           [decodable |-> FALSE, exif |-> None, h |-> 0, w |-> 0, px |-> n]
      [] kind = "noexif" ->
           [decodable |-> TRUE, exif |-> None, h |-> 20, w |-> 30, px |-> n]
      [] kind = "notime" ->
           [decodable |-> TRUE, exif |-> Some(TagOrientation :> 6),
            h |-> 20, w |-> 30, px |-> n]
      [] kind = "badtime" ->
           [decodable |-> TRUE, exif |-> Some(TagDateTime :> TimeUnset),
            h |-> 20, w |-> 30, px |-> n]
      [] kind = "t1" ->
           [decodable |-> TRUE,
            exif |-> Some((TagDateTime :> Time1) @@ (TagOrientation :> 6)),
            h |-> 20, w |-> 30, px |-> n]
      [] kind = "t2" ->
           [decodable |-> TRUE, exif |-> Some(TagDateTime :> Time2),
            h |-> 600, w |-> MaxDim, px |-> n]

\* --------------------------------------------------------------- open_image
\* The outcome of Processor(file_path): the constructor raises, or leaves
\* meta None, or leaves meta and imgs set.  imgs keeps the dict's insertion
\* order.
Degree(orientation) ==
    CASE orientation = 3 -> 180
      [] orientation = 6 -> 270
      [] orientation = 8 -> 90
      [] OTHER -> 0

Oriented(file) ==
    LET image == [h |-> file.h, w |-> file.w, px |-> file.px, rot |-> 0]
        exif == file.exif[1]
    IN  IF TagOrientation \in DOMAIN exif /\ Degree(exif[TagOrientation]) # 0
        THEN rotate(image, Degree(exif[TagOrientation]))
        ELSE image

HasTime(file) ==
    /\ file.exif # None
    /\ TagDateTime \in DOMAIN file.exif[1]

\* open_image from parse_time on, for a file that has the capture-time tag.
\* The loop over the variant table from entry i on: image is the oriented
\* image object as the earlier iterations left it.  The result is that
\* object's value after the loop and, per entry, the object resize returned.
RECURSIVE fill_imgs(_, _, _)
fill_imgs(image, table, i) ==
    IF i > Len(table) THEN [image |-> image, imgs |-> << >>]
    ELSE LET r == resize(image, table[i].bbox)
             rest == fill_imgs(r.arg, table, i + 1)
         IN  [image |-> rest.image,
              imgs |-> << [name |-> table[i].name, same |-> r.same, img |-> r.ret] >>
                          \o rest.imgs]

\* imgs after the loop: an entry that is the oriented image object itself
\* has the value that object ends with.
variants(image, table) ==
    LET f == fill_imgs(image, table, 1)
    IN  [i \in 1..Len(table) |->
            [name |-> f.imgs[i].name,
             img |-> IF f.imgs[i].same THEN f.image ELSE f.imgs[i].img]]

Develop(name, file, table) ==
    IF ~StrptimeOk(file.exif[1][TagDateTime])
    THEN [raised |-> TRUE, meta |-> None, imgs |-> << >>]
    ELSE LET image == Oriented(file)
         IN  [raised |-> FALSE,
              meta |-> Some([hw |-> <<image.h, image.w>>,
                             time |-> parse_time(file.exif[1][TagDateTime]),
                             name |-> name]),
              imgs |-> variants(image, table)]

\* A variant of open_image that falls back to a fixed time when the tag is
\* missing instead of giving the file up.
open_image_fallback_time(name, file) ==
    IF ~file.decodable
    THEN [raised |-> TRUE, meta |-> None, imgs |-> << >>]
    ELSE LET tags == IF file.exif = None THEN [t \in {} |-> 0] ELSE file.exif[1]
         IN  Develop(name, [file EXCEPT !.exif = Some(tags @@ (TagDateTime :> Time1))],
                     VariantTable)

\* open_image with the variant table as a parameter.
open_image_in(name, file, table) ==
    IF ~file.decodable
    THEN [raised |-> TRUE, meta |-> None, imgs |-> << >>]
    ELSE IF ~HasTime(file)
    THEN [raised |-> FALSE, meta |-> None, imgs |-> << >>]
    ELSE Develop(name, file, table)

open_image(name, file) == open_image_in(name, file, VariantTable)

\* ---------------------------------------------------------------- _save_file
\* The tree below _generated: fs.files maps a path <<variant, name>> to its
\* bytes or NoFile, fs.mtime counts the writes to it, fs.outcome is the last
\* decision logged for it in the current run, fs.by the tasks of the current
\* run whose writer has read or written it.
\* Variants of the writer: one that writes without comparing digests, one
\* that compares after writing, one that never replaces an existing file.
_save_file_ungated(fs, path, bytes) ==
    [fs EXCEPT !.files[path] = bytes,
               !.mtime[path] = @ + 1,
               !.outcome[path] = "Written"]

_save_file_write_first(fs, path, bytes) ==
    [fs EXCEPT !.files[path] = bytes,
               !.mtime[path] = @ + 1,
               !.outcome[path] =
                   IF fs.files[path] # NoFile /\ md5(bytes) = md5(fs.files[path])
                   THEN "Skipped" ELSE "Written"]

_save_file_keep_existing(fs, path, bytes) ==
    IF fs.files[path] # NoFile
    THEN [fs EXCEPT !.outcome[path] = "Skipped"]
    ELSE [fs EXCEPT !.files[path] = bytes,
                    !.mtime[path] = @ + 1,
                    !.outcome[path] = "Written"]

_save_file(fs, path, bytes) ==
    IF fs.files[path] # NoFile /\ md5(bytes) = md5(fs.files[path])
    THEN [fs EXCEPT !.outcome[path] = "Skipped"]
    ELSE [fs EXCEPT !.files[path] = bytes,
                    !.mtime[path] = @ + 1,
                    !.outcome[path] = "Written"]

\* ------------------------------------------------------------------ sorted
\* sorted(list, key=time): stable, so an element goes behind every element
\* already placed whose key is not greater.
RECURSIVE InsertByTime(_, _)
InsertByTime(m, s) ==
    IF s = << >> THEN << m >>
    ELSE IF StrLess(m.time, s[1].time) THEN << m >> \o s
    ELSE << s[1] >> \o InsertByTime(m, Tail(s))

\* A variant of sorted that leaves the list in the order of the map.
sorted_unsorted(metas) == metas

RECURSIVE sorted(_)
sorted(metas) ==
    IF metas = << >> THEN << >>
    ELSE InsertByTime(metas[Len(metas)], sorted(SubSeq(metas, 1, Len(metas) - 1)))

\* A variant of the filter that, having dropped a None, steps over the element
\* behind it as well.
RECURSIVE NotNone_stepping_over(_)
NotNone_stepping_over(rs) ==
    IF rs = << >> THEN << >>
    ELSE IF rs[1] = None
         THEN (IF Len(rs) >= 2 THEN NotNone_stepping_over(Tail(Tail(rs))) ELSE << >>)
         ELSE << rs[1][1] >> \o NotNone_stepping_over(Tail(rs))

\* [meta for meta in metas if meta is not None]
RECURSIVE NotNone(_)
NotNone(rs) ==
    IF rs = << >> THEN << >>
    ELSE (IF rs[1] = None THEN << >> ELSE << rs[1][1] >>) \o NotNone(Tail(rs))

\* ==================================================================== state
VARIABLES
    source,    \* assets/source: name -> source file
    order,     \* the order in which glob('*.jpg') lists the names
    fs,        \* assets/_generated: [gen, dirs, files, mtime, outcome]
    manifest,  \* _generated/metas.json: None, or Some(list of metas)
    run,       \* 1 or 2: which invocation of the script this is
    pc,        \* "args", "map", "done", "crashed"
    args,      \* [quality, nproc]
    tasks,     \* the list Pool.map made of the glob
    results,   \* per task: [kind: "pending" | "raised" | "returned", meta]
    next,      \* index of the next task no worker has taken
    wk,        \* per pool process: [task, stage, vi, meta, imgs]
    start,     \* fs and manifest when the current invocation started
    first,     \* what the first invocation left, once it has ended
    log,       \* the counts the main process has logged in this invocation
    call,      \* a function applied on its own: [fn, arg]
    ret        \* its result

vars == << source, order, fs, manifest, run, pc, args, tasks, results, next,
           wk, start, first, log, call, ret >>

Paths == VariantNames \X Names
MaxWorkers == MaxCpu \div 2
Workers == 1..MaxWorkers
Idle == [task |-> 0, stage |-> "idle", vi |-> 0, meta |-> None, imgs |-> << >>]
Pending == [kind |-> "pending", meta |-> None]
NoRun == [pc |-> "none", args |-> [quality |-> 0, nproc |-> 0], order |-> << >>,
          files |-> [p \in Paths |-> NoFile], mtime |-> [p \in Paths |-> 0],
          manifest |-> None]

NoCall == [fn |-> "none", arg |-> << >>]

\* Processor(file_path) for every file the source directory can hold: the
\* constructor is a function of the file alone, so its outcome is tabulated.
Photos == {SourceFile(kind, n) : kind \in SourceKinds, n \in Names}
Processor == [name \in Names, file \in Photos |-> open_image(name, file)]

\* What the pipeline encodes for the path of variant i of a source file.
NewBytes(file, name, i, q) == Encode(Processor[name, file].imgs[i].img, q)
Processable(file, name) == Processor[name, file].meta # None

VariantIndex(v) == CHOOSE i \in 1..NVariants : VariantTable[i].name = v

\* ----------------------------------------------------------- initial states
\* The output tree when the first invocation starts: no _generated at all,
\* an empty _generated, or a tree left behind by something else, in which
\* each path of a processable photo holds bytes that are not what this
\* pipeline encodes at the default quality but have the same digest, each
\* path of another name (a photo that has lost its timestamp, or has been
\* removed from source) holds some other bytes, and metas.json lists the
\* last name as it was once processed.
PriorBytes(src, p) ==
    LET name == p[2]
    IN  IF name \in DOMAIN src /\ Processable(src[name], name)
        THEN NewBytes(src[name], name, VariantIndex(p[1]), DefaultQuality) + HashSpace
        ELSE name

GhostMeta == [hw |-> <<1, 1>>, time |-> parse_time(Time1), name |-> MaxFiles]

PriorTree(prior, src) ==
    [gen |-> prior # "absent",
     dirs |-> IF prior = "stale" THEN VariantNames ELSE {},
     files |-> [p \in Paths |-> IF prior = "stale" THEN PriorBytes(src, p) ELSE NoFile],
     mtime |-> [p \in Paths |-> 0],
     outcome |-> [p \in Paths |-> "None"],
     by |-> [p \in Paths |-> {}]]

Init ==
    \E n \in 0..MaxFiles : \E kinds \in [1..n -> SourceKinds] :
    \E prior \in {"absent", "empty", "stale"} :
        /\ source = [i \in 1..n |-> SourceFile(kinds[i], i)]
        /\ order = [i \in 1..n |-> i]
        /\ fs = PriorTree(prior, source)
        /\ manifest = IF prior = "stale" THEN Some(<< GhostMeta >>) ELSE None
        /\ run = 1
        /\ pc = "args"
        /\ args = NoRun.args
        /\ tasks = << >>
        /\ results = << >>
        /\ next = 1
        /\ wk = [w \in Workers |-> Idle]
        /\ start = [manifest |-> manifest] @@ fs
        /\ first = NoRun
        /\ log = << >>
        /\ call = NoCall
        /\ ret = << >>

\* ----------------------------------------------------------------- __main__
\* parse_args and Pool(processes=args.nproc).map(..., glob): the default of
\* --nproc on a machine with cpu processors; the pool refuses a size below 1.
default_nproc(cpu) == cpu \div 2

ParseArgs(cpu, q) ==
    /\ pc = "args"
    /\ args' = [quality |-> q, nproc |-> default_nproc(cpu)]
    /\ pc' = IF args'.nproc < 1 THEN "crashed" ELSE "map"
    /\ tasks' = order
    /\ results' = [i \in 1..Len(order) |-> Pending]
    /\ next' = 1
    /\ fs' = [fs EXCEPT !.outcome = [p \in Paths |-> "None"],
                        !.by = [p \in Paths |-> {}]]
    /\ start' = [manifest |-> manifest] @@ fs'
    /\ log' = << >>
    /\ UNCHANGED << source, order, manifest, run, wk, first, call, ret >>

\* A pool process takes the next task of the map.
Take(w) ==
    /\ pc = "map"
    /\ w <= args.nproc
    /\ wk[w].stage = "idle"
    /\ next <= Len(tasks)
    /\ wk' = [wk EXCEPT ![w] = [Idle EXCEPT !.task = next, !.stage = "open"]]
    /\ next' = next + 1
    /\ UNCHANGED << source, order, fs, manifest, run, pc, args, tasks, results,
                    start, first,
                    log, call, ret >>

\* process_and_get_meta up to the test of processor.meta: the constructor
\* raises (the task fails), or meta is None (the task returns None), or
\* save() begins.
process_and_get_meta(w) ==
    /\ pc = "map"
    /\ wk[w].stage = "open"
    /\ LET name == tasks[wk[w].task]
           p == open_image(name, source[name])
       IN  IF p.raised
           THEN /\ results' = [results EXCEPT ![wk[w].task] =
                                  [kind |-> "raised", meta |-> None]]
                /\ wk' = [wk EXCEPT ![w] = Idle]
           ELSE IF p.meta = None
           THEN /\ results' = [results EXCEPT ![wk[w].task] =
                                  [kind |-> "returned", meta |-> None]]
                /\ wk' = [wk EXCEPT ![w] = Idle]
           ELSE /\ wk' = [wk EXCEPT ![w] = [@ EXCEPT !.stage = "mkdir", !.vi = 1,
                                               !.meta = p.meta, !.imgs = p.imgs]]
                /\ UNCHANGED results
    /\ UNCHANGED << source, order, fs, manifest, run, pc, args, tasks, next,
                    start, first,
                    log, call, ret >>

\* save(): dest_dir.mkdir(parents=True, exist_ok=True) for the current
\* variant, as a whole: an existing directory is left as it is.
mkdir(tree, v) == [tree EXCEPT !.gen = TRUE, !.dirs = @ \cup {v}]

\* A variant of os.mkdir that empties a directory it finds and reports
\* success.
os_mkdir_recreating(tree, v) ==
    IF ~tree.gen THEN [err |-> "ENOENT", tree |-> tree]
    ELSE [err |-> "ok",
          tree |-> [tree EXCEPT !.dirs = @ \cup {v},
                                !.files = [p \in Paths |->
                                    IF p[1] = v /\ v \in tree.dirs THEN NoFile
                                    ELSE tree.files[p]]]]

\* The same call system call by system call, as Path.mkdir makes them.
\* os.mkdir(_generated/v) creates the directory, or fails with ENOENT when
\* _generated is missing, or with EEXIST.
os_mkdir(tree, v) ==
    IF ~tree.gen THEN [err |-> "ENOENT", tree |-> tree]
    ELSE IF v \in tree.dirs THEN [err |-> "EEXIST", tree |-> tree]
    ELSE [err |-> "ok", tree |-> [tree EXCEPT !.dirs = @ \cup {v}]]

\* os.mkdir(_generated), made for parents=True with exist_ok=True.
os_mkdir_parent(tree) == [tree EXCEPT !.gen = TRUE]

\* A variant of the flag: the default of Path.mkdir.
exist_ok_default == FALSE

\* exist_ok=True: EEXIST on a directory is passed over.
exist_ok == TRUE

FailTask(w) ==
    /\ results' = [results EXCEPT ![wk[w].task] = [kind |-> "raised", meta |-> None]]
    /\ wk' = [wk EXCEPT ![w] = Idle]

\* The first os.mkdir of the variant directory.
Mkdir(w) ==
    /\ pc = "map"
    /\ wk[w].stage = "mkdir"
    /\ LET r == os_mkdir(fs, wk[w].imgs[wk[w].vi].name)
       IN  /\ fs' = r.tree
           /\ IF r.err = "ENOENT"
              THEN wk' = [wk EXCEPT ![w].stage = "mkparent"] /\ UNCHANGED results
              ELSE IF r.err = "EEXIST" /\ ~exist_ok
              THEN FailTask(w)
              ELSE wk' = [wk EXCEPT ![w].stage = "save"] /\ UNCHANGED results
    /\ UNCHANGED << source, order, manifest, run, pc, args, tasks, next,
                    start, first, log, call, ret >>

\* After ENOENT: self.parent.mkdir(parents=True, exist_ok=True).
MkdirParent(w) ==
    /\ pc = "map"
    /\ wk[w].stage = "mkparent"
    /\ fs' = os_mkdir_parent(fs)
    /\ wk' = [wk EXCEPT ![w].stage = "mkdir2"]
    /\ UNCHANGED << source, order, manifest, run, pc, args, tasks, results, next,
                    start, first, log, call, ret >>

\* Then self.mkdir(mode, parents=False, exist_ok=exist_ok): another process
\* may have made the variant directory in between.
MkdirRetry(w) ==
    /\ pc = "map"
    /\ wk[w].stage = "mkdir2"
    /\ LET r == os_mkdir(fs, wk[w].imgs[wk[w].vi].name)
       IN  /\ fs' = r.tree
           /\ IF r.err = "EEXIST" /\ ~exist_ok
              THEN FailTask(w)
              ELSE wk' = [wk EXCEPT ![w].stage = "save"] /\ UNCHANGED results
    /\ UNCHANGED << source, order, manifest, run, pc, args, tasks, next,
                    start, first, log, call, ret >>

\* Variants of the destination path: one forgets the variant directory, one
\* the name of the source file.
dest_file_path_flat(v, name) == << "ori", name >>
dest_file_path_unnamed(v, name) == << v, 1 >>

\* save(): dest_dir / self.file_path.name, with dest_dir the directory of the
\* variant below _generated.
dest_file_path(v, name) == << v, name >>

\* save(): _save_file for the current variant, then the next variant, or the
\* return of processor.meta after the last one.
SaveFile(w) ==
    /\ pc = "map"
    /\ wk[w].stage = "save"
    /\ LET cur == wk[w].imgs[wk[w].vi]
           path == dest_file_path(cur.name, tasks[wk[w].task])
       IN  fs' = [_save_file(fs, path, Encode(cur.img, args.quality))
                    EXCEPT !.by[path] = @ \cup {wk[w].task}]
    /\ IF wk[w].vi < Len(wk[w].imgs)
       THEN /\ wk' = [wk EXCEPT ![w] = [@ EXCEPT !.stage = "mkdir", !.vi = @ + 1]]
            /\ UNCHANGED results
       ELSE /\ results' = [results EXCEPT ![wk[w].task] =
                              [kind |-> "returned", meta |-> wk[w].meta]]
            /\ wk' = [wk EXCEPT ![w] = Idle]
    /\ UNCHANGED << source, order, manifest, run, pc, args, tasks, next,
                    start, first,
                    log, call, ret >>

\* A variant of the wait that is over as soon as one task has ended.
MapDone_first_result ==
    \/ results = << >>
    \/ \E i \in 1..Len(results) : results[i].kind # "pending"

\* The tree a single process leaves that handles the tasks one after the other
\* from task k on, and variant i of a photo after variant i - 1.
RECURSIVE SeqSave(_, _, _, _)
SeqSave(tree, name, imgs, i) ==
    IF i > Len(imgs) THEN tree
    ELSE SeqSave(_save_file(mkdir(tree, imgs[i].name),
                            dest_file_path(imgs[i].name, name),
                            Encode(imgs[i].img, args.quality)),
                 name, imgs, i + 1)

RECURSIVE SeqRun(_, _)
SeqRun(tree, k) ==
    IF k > Len(tasks) THEN tree
    ELSE LET p == open_image(tasks[k], source[tasks[k]])
         IN  SeqRun(IF p.meta = None THEN tree
                    ELSE SeqSave(tree, tasks[k], p.imgs, 1),
                    k + 1)

\* Pool.map returns once every task has ended.
MapDone == \A i \in 1..Len(results) : results[i].kind # "pending"
MapFailed == \E i \in 1..Len(results) : results[i].kind = "raised"

\* map re-raises the exception of a failed task in the main process.
MapRaises ==
    /\ pc = "map"
    /\ MapDone
    /\ MapFailed
    /\ pc' = "crashed"
    /\ UNCHANGED << source, order, fs, manifest, run, args, tasks, results, next,
                    wk, start, first,
                    log, call, ret >>

\* A variant of the dump that opens metas.json for appending.
dump_appending(old, metas) ==
    IF old = None THEN Some(metas) ELSE Some(old[1] \o metas)

\* meta_file_path.open('w') and json.dump(metas, fd): the file is truncated,
\* whatever it held.
dump(old, metas) == Some(metas)

\* The list map returns is counted in the log, then filtered and sorted;
\* meta_file_path.open('w') needs the directory _generated to exist.
Metas == sorted(NotNone([i \in 1..Len(results) |-> results[i].meta]))

SaveMetas ==
    /\ pc = "map"
    /\ MapDone
    /\ ~MapFailed
    /\ log' = log \o << [msg |-> "photos processed", count |-> Len(results)],
                       [msg |-> "Saving meta to"] >>
    /\ IF fs.gen
       THEN /\ manifest' = dump(manifest, Metas)
            /\ pc' = "done"
       ELSE /\ pc' = "crashed"
            /\ UNCHANGED manifest
    /\ UNCHANGED << source, order, fs, run, args, tasks, results, next, wk,
                    start, first, call, ret >>

\* ------------------------------------------------------------- environment
Reverse(s) == [i \in 1..Len(s) |-> s[Len(s) + 1 - i]]

\* The script is invoked again on the same assets directory; the directory
\* listing may come in another order.
Rerun(ord) ==
    /\ run = 1
    /\ pc \in {"done", "crashed"}
    /\ first' = [pc |-> pc, args |-> args, order |-> order, files |-> fs.files,
                 mtime |-> fs.mtime, manifest |-> manifest]
    /\ run' = 2
    /\ pc' = "args"
    /\ order' = ord
    /\ tasks' = << >>
    /\ results' = << >>
    /\ next' = 1
    /\ UNCHANGED << source, fs, manifest, args, wk, start,
                    log, call, ret >>

Next ==
    \/ \E cpu \in 1..MaxCpu, q \in Qualities : ParseArgs(cpu, q)
    \/ \E w \in Workers : Take(w)
    \/ \E w \in Workers : process_and_get_meta(w)
    \/ \E w \in Workers : Mkdir(w)
    \/ \E w \in Workers : MkdirParent(w)
    \/ \E w \in Workers : MkdirRetry(w)
    \/ \E w \in Workers : SaveFile(w)
    \/ MapRaises
    \/ SaveMetas
    \/ \E ord \in {order, Reverse(order)} : Rerun(ord)

Spec == Init /\ [][Next]_vars

\* ------------------------------------------------- functions on their own
\* A second specification applies open_image and parse_time to inputs taken
\* from small sets, once per behaviour; call holds the function and its
\* argument, ret the value it gave.  The batch does not run.
Dims == {1, 5, 10, 11, 20, 600, 799, 800, 801, MaxDim}

\* exif.get(0x0112): absent, or one of the values a camera may write.
Orientations == {None} \cup {Some(o) : o \in 0..9}

\* The variant table in every order.
Tables ==
    {t \in [1..NVariants -> {VariantTable[i] : i \in 1..NVariants}] :
        \A i, j \in 1..NVariants : i # j => t[i] # t[j]}

\* A decodable photo of h by w pixels taken at Time1.
PhotoFile(h, w, o) ==
    [decodable |-> TRUE,
     exif |-> Some(IF o = None THEN TagDateTime :> Time1
                   ELSE (TagDateTime :> Time1) @@ (TagOrientation :> o[1])),
     h |-> h, w |-> w, px |-> 1]

\* Capture times around the changes of length and of day: years 999 and
\* 1000, months 2 and 10, days 9 and 10, hours on both sides of the offset.
DateStrs ==
    {d \in {999, 1000, 2023} \X {2, 10} \X {9, 10} \X {7, 9, 10} \X {5, 59} \X {9, 10} :
        StrptimeOk(d)}

InitFn ==
    /\ Init
    /\ source = << >>
    /\ ~fs.gen

Call_open_image(h, w, o, table) ==
    /\ call.fn = "none"
    /\ call' = [fn |-> "open_image",
                arg |-> [file |-> PhotoFile(h, w, o), table |-> table]]
    /\ ret' = open_image_in(1, PhotoFile(h, w, o), table)
    /\ UNCHANGED << source, order, fs, manifest, run, pc, args, tasks, results,
                    next, wk, start, first, log >>

\* parse_time applied to two strings.
Call_parse_time(a, b) ==
    /\ call.fn = "none"
    /\ call' = [fn |-> "parse_time", arg |-> << a, b >>]
    /\ ret' = << parse_time(a), parse_time(b) >>
    /\ UNCHANGED << source, order, fs, manifest, run, pc, args, tasks, results,
                    next, wk, start, first, log >>

NextFn ==
    \/ \E h \in Dims, w \in Dims, o \in Orientations, table \in Tables :
          Call_open_image(h, w, o, table)
    \/ \E a \in DateStrs, b \in DateStrs : Call_parse_time(a, b)

SpecFn == InitFn /\ [][NextFn]_vars

\* =================================================================== claims
\* The bytes the current invocation encodes for a path it has handled.
RunBytes(p) == NewBytes(source[p[2]], p[2], VariantIndex(p[1]), args.quality)
Handled(p) == fs.outcome[p] # "None"
Ended == pc \in {"done", "crashed"}
ManifestNames == {manifest[1][i].name : i \in 1..Len(manifest[1])}

\* C1: processing one source file never raises to the batch driver for a
\* per-file input defect: no task of the map ends with an exception, the
\* call returns None for a file that cannot be decoded as it does for a file
\* without the capture-time tag.
C1_NoTaskRaises ==
    \A i \in 1..Len(results) :
        results[i].kind # "pending" /\ ~Processable(source[tasks[i]], tasks[i])
            => results[i] = [kind |-> "returned", meta |-> None]

\* C2: whatever the source files and the prior output tree, the batch
\* completes and writes the manifest: a pool that could be created, none of
\* whose tasks raised, never ends without metas.json written.
C2_ManifestAlwaysWritten ==
    (Ended /\ args.nproc >= 1 /\ ~MapFailed) => pc = "done"

\* C3: a second invocation with the same command line on the unchanged
\* source directory writes no variant file (every writer call is a skip)
\* and leaves every variant file and the manifest as the first left them.
C3_SecondRunSkips ==
    (run = 2 /\ pc # "args" /\ args = first.args /\ order = first.order)
        => /\ \A p \in Paths : fs.outcome[p] # "Written"
           /\ fs.files = first.files
           /\ fs.mtime = first.mtime
           /\ manifest = first.manifest

C3_Witness ==
    /\ run = 2 /\ pc = "done" /\ first.pc = "done"
    /\ args = first.args /\ order = first.order
    /\ Len(manifest[1]) >= 1
    /\ \A n \in ManifestNames : \A v \in VariantNames :
          /\ fs.outcome[<<v, n>>] = "Skipped"
          /\ fs.files[<<v, n>>] = RunBytes(<<v, n>>)

\* C4: a writer call for a path that exists with bytes of the same digest as
\* the new bytes writes nothing: content and modification count are those
\* of the start of the run and the outcome is Skipped.
C4_SameHashNotTouched ==
    \A p \in Paths :
        (Handled(p) /\ start.files[p] # NoFile
                    /\ md5(start.files[p]) = md5(RunBytes(p)))
            => /\ fs.outcome[p] = "Skipped"
               /\ fs.files[p] = start.files[p]
               /\ fs.mtime[p] = start.mtime[p]

C4_Witness ==
    \E p \in Paths :
        /\ Handled(p)
        /\ start.files[p] = RunBytes(p)
        /\ start.mtime[p] = 1
        /\ fs.outcome[p] = "Skipped"

\* C5 as stated: after every return of the writer the destination's content
\* equals the newly encoded bytes.
C5_ContentIsNewBytes ==
    \A p \in Paths : Handled(p) => fs.files[p] = RunBytes(p)

\* C5 as amended: a path that did not exist, or existed with bytes of another
\* digest than the new bytes, is written with the new bytes (outcome
\* Written); after every return of the writer the destination's digest is
\* that of the new bytes.
C5_DigestIsNewDigest ==
    \A p \in Paths :
        Handled(p) =>
            LET new == RunBytes(p)
            IN  /\ fs.files[p] # NoFile
                /\ md5(fs.files[p]) = md5(new)
                /\ (start.files[p] = NoFile \/ md5(start.files[p]) # md5(new))
                      => /\ fs.outcome[p] = "Written"
                         /\ fs.files[p] = new
                         /\ fs.mtime[p] = start.mtime[p] + 1

C5_Witness ==
    \E p \in Paths :
        /\ run = 2 /\ Handled(p)
        /\ first.mtime[p] = 1 /\ start.files[p] = first.files[p]
        /\ fs.outcome[p] = "Written" /\ fs.mtime[p] = 2
        /\ fs.files[p] = RunBytes(p) /\ fs.files[p] # start.files[p]

\* C6: for a source image whose tag set is absent or lacks the capture-time
\* tag, the run writes no variant file under any variant directory and the
\* manifest it writes has no entry with that image's name.
C6_NoTimeNoOutput ==
    \A n \in DOMAIN source :
        ~HasTime(source[n]) =>
            /\ \A v \in VariantNames :
                  /\ fs.outcome[<<v, n>>] = "None"
                  /\ fs.files[<<v, n>>] = start.files[<<v, n>>]
                  /\ fs.mtime[<<v, n>>] = start.mtime[<<v, n>>]
            /\ pc = "done" => n \notin ManifestNames

C6_Witness ==
    /\ pc = "done"
    /\ Len(manifest[1]) >= 1
    /\ \E i \in 1..Len(tasks) :
          /\ source[tasks[i]].decodable
          /\ source[tasks[i]].exif # None
          /\ ~HasTime(source[tasks[i]])
          /\ results[i] = [kind |-> "returned", meta |-> None]
          /\ fs.files[<<"ori", tasks[i]>>] # NoFile

\* C7: the manifest a run writes holds the metadata of each enumerated source
\* photo that was processed successfully exactly once, and nothing else.
C7_ExactlyTheProcessed ==
    pc = "done" =>
        LET m == manifest[1]
            ok == {n \in DOMAIN source : Processable(source[n], n)}
        IN  /\ Len(m) = Cardinality(ok)
            /\ \A n \in ok : \E i \in 1..Len(m) : Some(m[i]) = open_image(n, source[n]).meta
            /\ \A i, j \in 1..Len(m) : m[i].name = m[j].name => i = j

C7_Witness ==
    /\ pc = "done"
    /\ args.nproc = 2
    /\ Len(tasks) = 2
    /\ results[1].meta = None
    /\ Len(manifest[1]) = 1
    /\ manifest[1][1].name = tasks[2]

\* C8: the entries of the written manifest are sorted non-decreasing by their
\* time field.
C8_SortedByTime ==
    pc = "done" =>
        \A i, j \in 1..Len(manifest[1]) :
            i < j => ~StrLess(manifest[1][j].time, manifest[1][i].time)

C8_Witness ==
    /\ pc = "done"
    /\ args.nproc = 2
    /\ Len(tasks) = 2
    /\ Len(manifest[1]) = 2
    /\ StrLess(results[2].meta[1].time, results[1].meta[1].time)
    /\ manifest[1][1].name = tasks[2]

\* C9: two runs over the same set of source files, enumerated in any two
\* orders, write the same manifest sequence.
C9_OrderIndependent ==
    (run = 2 /\ pc = "done" /\ first.pc = "done") => manifest = first.manifest

\* C10 as stated: when the manifest is written, every variant path of every
\* manifest entry holds the encoding of that photo's variant.
C10_VariantsHoldEncoding ==
    pc = "done" =>
        \A n \in ManifestNames : \A v \in VariantNames :
            fs.files[<<v, n>>] = RunBytes(<<v, n>>)

\* C10 as amended: when the manifest is written, every variant path of every
\* manifest entry exists, was handled by the writer in this run, and holds
\* bytes with the digest of the encoding of that photo's variant: the
\* encoding itself wherever the writer wrote.
C10_VariantsHoldDigest ==
    pc = "done" =>
        \A n \in ManifestNames : \A v \in VariantNames :
            /\ fs.gen /\ v \in fs.dirs
            /\ Handled(<<v, n>>)
            /\ fs.files[<<v, n>>] # NoFile
            /\ md5(fs.files[<<v, n>>]) = md5(RunBytes(<<v, n>>))
            /\ fs.outcome[<<v, n>>] = "Written" => fs.files[<<v, n>>] = RunBytes(<<v, n>>)

C10_Witness ==
    /\ pc = "done"
    /\ run = 1
    /\ args.nproc = 2
    /\ Len(manifest[1]) = 2
    /\ \A n \in ManifestNames : \A v \in VariantNames :
          /\ start.files[<<v, n>>] = NoFile
          /\ fs.files[<<v, n>>] = RunBytes(<<v, n>>)

\* C11: the manifest is written, or its writing attempted, only after every
\* dispatched invocation has completed: the main process is past the map
\* only when every task has a result and no pool process holds a task.
C11_ManifestAfterAllTasks ==
    (Ended /\ args.nproc >= 1) =>
        /\ next = Len(tasks) + 1
        /\ \A i \in 1..Len(tasks) : results[i].kind # "pending"
        /\ \A w \in Workers : wk[w].stage = "idle"

C11_Witness ==
    /\ pc = "done"
    /\ args.nproc = 2
    /\ Len(tasks) = 2
    /\ Len(manifest[1]) = 2
    /\ \A w \in Workers : wk[w].stage = "idle"

\* C12: no destination path is read or written by two different per-photo
\* invocations, under any interleaving of the pool's processes, and once the
\* map is over the tree is the one a sequential run leaves.
C12_PathsNotShared ==
    /\ pc # "args" =>
          \A p \in Paths :
              /\ Cardinality(fs.by[p]) <= 1
              /\ \A i \in fs.by[p] : tasks[i] = p[2]
    /\ (pc # "args" /\ args.nproc >= 1 /\ MapDone) =>
          LET seq == SeqRun(start, 1)
          IN  /\ fs.files = seq.files
              /\ fs.mtime = seq.mtime
              /\ fs.outcome = seq.outcome
              /\ fs.dirs = seq.dirs
              /\ fs.gen = seq.gen

C12_Witness ==
    /\ pc = "map"
    /\ args.nproc = 2
    /\ wk[1].stage = "save" /\ wk[2].stage = "save"
    /\ wk[1].vi = 2 /\ wk[2].vi = 2
    /\ \A w \in {1, 2} : fs.by[<<"xs", tasks[wk[w].task]>>] = {wk[w].task}

\* C13: creating a variant directory that exists already, or that another
\* pool process creates at the same moment, is not an error: no task fails
\* in save(), a process about to write has its directory, and every
\* processable photo gets all its variants handled.
C13_MkdirRaceHarmless ==
    /\ \A i \in 1..Len(results) :
          results[i].kind = "raised" => open_image(tasks[i], source[tasks[i]]).raised
    /\ \A w \in Workers :
          wk[w].stage = "save" => fs.gen /\ wk[w].imgs[wk[w].vi].name \in fs.dirs
    /\ (pc # "args" /\ args.nproc >= 1 /\ MapDone) =>
          \A i \in 1..Len(tasks) :
              Processable(source[tasks[i]], tasks[i]) =>
                  \A v \in VariantNames : Handled(<<v, tasks[i]>>)

\* Two processes have both found _generated missing and are both about to
\* create the same variant directory.
C13_Witness ==
    /\ wk[1].stage = "mkdir2" /\ wk[2].stage = "mkdir2"
    /\ wk[1].vi = wk[2].vi
    /\ wk[1].imgs[wk[1].vi].name \notin fs.dirs

\* C14: the manifest a run writes replaces the one left at the path: an
\* entry of the earlier manifest is in the new one only if this run produced
\* it, and the entries are the metadata of this run's processable photos.
C14_ManifestReplaced ==
    pc = "done" =>
        LET produced == {open_image(tasks[i], source[tasks[i]]).meta :
                            i \in {j \in 1..Len(tasks) :
                                     Processable(source[tasks[j]], tasks[j])}}
            new == {Some(manifest[1][i]) : i \in 1..Len(manifest[1])}
            old == IF start.manifest = None THEN {}
                   ELSE {Some(start.manifest[1][i]) : i \in 1..Len(start.manifest[1])}
        IN  /\ new = produced
            /\ old \cap new \subseteq produced
            /\ Len(manifest[1]) = Cardinality(produced)

C14_Witness ==
    /\ pc = "done"
    /\ run = 1
    /\ start.manifest = Some(<< GhostMeta >>)
    /\ Len(manifest[1]) >= 1
    /\ \A i \in 1..Len(manifest[1]) : manifest[1][i] # GhostMeta
    /\ \E i \in 1..Len(manifest[1]) : manifest[1][i].name = GhostMeta.name

\* C16: the default pool size is at least 1 for every processor count n >= 1
\* (it is max(1, n div 2)), so the pool is created and the batch runs.
C16_DefaultPoolSize ==
    pc # "args" =>
        /\ args.nproc >= 1
        /\ \E n \in 1..MaxCpu : args.nproc = Max2(1, n \div 2)

\* C17: a batch run logs two counts: the number of photos processed, skipped
\* ones included, and the number of entries written to the manifest.
LogCounts(i) == IF "count" \in DOMAIN log[i] THEN {log[i].count} ELSE {}

C17_TwoCountsLogged ==
    pc = "done" =>
        \E i, j \in 1..Len(log) :
            /\ i # j
            /\ Len(tasks) \in LogCounts(i)
            /\ Len(manifest[1]) \in LogCounts(j)

\* C20: a run deletes no file and no directory, and leaves every variant
\* file whose name is not that of a source photo it processes as it was when
\* the run started (content and modification time, no writer decision), while
\* the manifest it writes has no entry for such a name.
Processed(name) == name \in DOMAIN source /\ Processable(source[name], name)

C20_OthersUntouched ==
    /\ \A p \in Paths : start.files[p] # NoFile => fs.files[p] # NoFile
    /\ \A n \in Names :
          \/ \A v \in VariantNames :
                /\ fs.files[<< v, n >>] = start.files[<< v, n >>]
                /\ fs.mtime[<< v, n >>] = start.mtime[<< v, n >>]
                /\ ~Handled(<< v, n >>)
          \/ Processed(n)
    /\ start.dirs \subseteq fs.dirs
    /\ start.gen => fs.gen
    /\ start.manifest # None => manifest # None
    /\ pc = "done" => \A n \in ManifestNames : Processed(n)

C20_Witness ==
    /\ pc = "done"
    /\ start.manifest = Some(<< GhostMeta >>)
    /\ ~Processed(GhostMeta.name)
    /\ Len(manifest[1]) >= 1
    /\ \A v \in VariantNames :
          /\ start.files[<< v, GhostMeta.name >>] # NoFile
          /\ fs.files[<< v, GhostMeta.name >>] = start.files[<< v, GhostMeta.name >>]

\* The image stored under a variant name by the open_image call.
RetImg(v) == (CHOOSE e \in {ret.imgs[i] : i \in 1..Len(ret.imgs)} : e.name = v).img

\* C15: orientation 3 gives a rotation of 180 degrees, 6 of 270, 8 of 90,
\* any other or an absent value none; meta's hw is the size of the oriented
\* image: the raw height and width, swapped for orientations 6 and 8.
C15_OrientationAndHw ==
    call.fn = "open_image" =>
        LET file == call.arg.file
            tags == file.exif[1]
            o == IF TagOrientation \in DOMAIN tags THEN tags[TagOrientation] ELSE 0
            degree == IF o = 3 THEN 180 ELSE IF o = 6 THEN 270
                      ELSE IF o = 8 THEN 90 ELSE 0
        IN  /\ RetImg("ori").rot = degree
            /\ ret.meta[1].hw = IF o \in {6, 8} THEN << file.w, file.h >>
                                ELSE << file.h, file.w >>

C15_Witness ==
    /\ call.fn = "open_image"
    /\ call.arg.file.exif[1] = (TagDateTime :> Time1) @@ (TagOrientation :> 6)
    /\ call.arg.file.h = 600
    /\ call.arg.file.w = 800
    /\ ret.meta[1].hw = << 800, 600 >>
    /\ RetImg("ori").rot = 270

\* C18: in whatever order the variant table is walked, the 'ori' variant is
\* the oriented image at the size given in meta's hw, every boxed variant
\* fits its box and the oriented image, and each variant is the one the
\* table's own order gives.
C18_VariantsFromCopies ==
    call.fn = "open_image" =>
        LET hw == ret.meta[1].hw
            table == call.arg.table
        IN  \A i \in 1..Len(table) :
                LET img == ret.imgs[i].img
                    bbox == table[i].bbox
                IN  /\ ret.imgs[i].name = table[i].name
                    /\ img = open_image(1, call.arg.file).imgs[VariantIndex(table[i].name)].img
                    /\ img.px = call.arg.file.px
                    /\ IF bbox = None
                       THEN img.h = hw[1] /\ img.w = hw[2]
                       ELSE /\ img.w \in 1..bbox[1]
                            /\ img.h \in 1..bbox[2]
                            /\ img.h <= hw[1]
                            /\ img.w <= hw[2]

C18_Witness ==
    /\ call.fn = "open_image"
    /\ call.arg.table[1].name = "ori"
    /\ call.arg.table[2].name = "xs"
    /\ call.arg.file.h = MaxDim
    /\ call.arg.file.w = 801
    /\ ret.imgs[1].img.h = MaxDim
    /\ ret.imgs[1].img.w = 801
    /\ ret.imgs[2].img.h = 10
    /\ ret.imgs[3].img.h = 800

\* The instant a capture time names at the fixed offset, as << day number,
\* second of the day >> in UTC.
DaysBeforeYear(y) ==
    (y - 1) * 365 + (y - 1) \div 4 - (y - 1) \div 100 + (y - 1) \div 400

RECURSIVE DaysBeforeMonth(_, _)
DaysBeforeMonth(y, m) ==
    IF m = 1 THEN 0 ELSE DaysInMonth(y, m - 1) + DaysBeforeMonth(y, m - 1)

Instant(d) ==
    LET day == DaysBeforeYear(d[1]) + DaysBeforeMonth(d[1], d[2]) + d[3]
        sec == d[4] * 3600 + d[5] * 60 + d[6] - TzHours * 3600
    IN  IF sec < 0 THEN << day - 1, sec + 86400 >> ELSE << day, sec >>

Before(s, t) == s[1] < t[1] \/ (s[1] = t[1] /\ s[2] < t[2])

\* C19: for two capture-time strings, the string parse_time gives for the
\* first is less than the one it gives for the second, in string order,
\* exactly when the first instant is before the second, and the two strings
\* are equal exactly when the instants are.
C19_LexIsChronological ==
    call.fn = "parse_time" =>
        /\ StrLess(ret[1], ret[2]) <=> Before(Instant(call.arg[1]), Instant(call.arg[2]))
        /\ ret[1] = ret[2] <=> Instant(call.arg[1]) = Instant(call.arg[2])

C19_Witness ==
    /\ call.fn = "parse_time"
    /\ call.arg[1] = << 999, 10, 10, 10, 59, 10 >>
    /\ call.arg[2] = << 1000, 2, 9, 7, 5, 9 >>
    /\ StrLess(ret[1], ret[2])
====
